---- MODULE Spec2Model ----
(***************************************************************************)
(* Model of surfman/src/platform/windows/wgl/surface.rs: the WGL/Direct3D  *)
(* interop surface lifecycle (create / lock / unlock / share / destroy).   *)
(*                                                                         *)
(* Every Device method is one action.  A method is a pure operator on a   *)
(* "world" record (thread-current context, GL objects per context, live   *)
(* D3D11 textures, registered interop objects, call trace); the action    *)
(* applies it and stores the outcome in `last`.  The trace lists every    *)
(* native / GL / interop call the method issued, in order, together with  *)
(* the lock state of the object it touched at the moment of the call.     *)
(***************************************************************************)
EXTENDS Integers, Sequences, FiniteSets, TLC

(***************************** bounds **************************************)
NumContexts == 2
NumWindows == 1
MaxWidth == 2
MaxHeight == 1
MaxSlots == 2
MaxCalls == 5

Contexts == 1..NumContexts
\* native window handles: values of their own, never the address of a texture
WindowHandle(i) == 1000 + i
Windows == {WindowHandle(i) : i \in 1..NumWindows}
Sizes == (1..MaxWidth) \X (1..MaxHeight)
Slots == 1..MaxSlots

(************************ program constants ********************************)
NoContext == 0
INVALID_HANDLE_VALUE == -1
WGL_ACCESS_READ_ONLY_NV == 0
WGL_ACCESS_READ_WRITE_NV == 1

VARIABLES
    dx_interop_functions,  \* BOOLEAN: WGL_EXTENSION_FUNCTIONS.dx_interop_functions is Some
    current_context,       \* context current on the calling thread (NoContext = none)
    framebuffer_binding,   \* [Contexts -> framebuffer name bound in that context]
    texture_binding,       \* [Contexts -> texture name bound to TEXTURE_2D]
    d3d11_textures,        \* addresses of the D3D11 textures the program holds a ComPtr to
    interop_objects,       \* registered interop objects: handle -> record
    gl_textures,           \* live GL texture names, <<context, name>>
    gl_framebuffers,       \* live GL framebuffer names, <<context, name>>
    gl_renderbuffers,      \* live GL renderbuffer names, <<context, name>>
    held,                  \* the Surface / SurfaceTexture values the caller owns
    last,                  \* the last Device call: arguments, outcome, call trace
    history                \* the calls made so far, when the run is recorded

vars == <<dx_interop_functions, current_context, framebuffer_binding, texture_binding,
          d3d11_textures, interop_objects, gl_textures, gl_framebuffers,
          gl_renderbuffers, held, last, history>>

(***************************** values **************************************)
\* smallest positive number not in S: handle / name / address allocation
MinFree(S) == CHOOSE n \in 1..(Cardinality(S) + 1) :
                  n \notin S /\ \A m \in 1..(n - 1) : m \in S

\* struct Surface with Win32Objects::Texture
TextureSurface(size, context_id, d3d11_texture, gl_dx_interop_object, gl_texture, gl_framebuffer, renderbuffers) ==
    [kind |-> "Texture", size |-> size, context_id |-> context_id,
     destroyed |-> FALSE,
     d3d11_texture |-> d3d11_texture, dxgi_share_handle |-> d3d11_texture,
     gl_dx_interop_object |-> gl_dx_interop_object, gl_texture |-> gl_texture,
     gl_framebuffer |-> gl_framebuffer, renderbuffers |-> renderbuffers,
     window_handle |-> 0]

\* struct Surface with Win32Objects::Widget
WidgetSurface(size, context_id, window_handle) ==
    [kind |-> "Widget", size |-> size, context_id |-> context_id,
     destroyed |-> FALSE,
     d3d11_texture |-> 0, dxgi_share_handle |-> 0,
     gl_dx_interop_object |-> 0, gl_texture |-> 0,
     gl_framebuffer |-> 0, renderbuffers |-> 0,
     window_handle |-> window_handle]

\* struct SurfaceTexture
SurfaceTexture(surface, local_d3d11_texture, local_gl_dx_interop_object, gl_texture) ==
    [surface |-> surface, local_d3d11_texture |-> local_d3d11_texture,
     local_gl_dx_interop_object |-> local_gl_dx_interop_object,
     gl_texture |-> gl_texture]

\* Surface::size, Surface::id, Surface::context_id
size(surface) == surface.size

id(surface) == IF surface.kind = "Texture" THEN surface.d3d11_texture
               ELSE surface.window_handle
context_id(surface) == surface.context_id

\* what the caller holds in a slot
Nothing == [tag |-> "none"]
HeldSurface(s) == [tag |-> "surface", surface |-> s]
HeldTexture(t) == [tag |-> "texture", surface_texture |-> t]

\* the machine a method runs on
World == [interop |-> dx_interop_functions, current |-> current_context,
          fb_binding |-> framebuffer_binding, tex_binding |-> texture_binding,
          d3d |-> d3d11_textures, objs |-> interop_objects,
          textures |-> gl_textures, framebuffers |-> gl_framebuffers,
          renderbuffers |-> gl_renderbuffers, trace |-> <<>>]


(************************ call trace ***************************************)
\* a call that touches no interop-registered resource
Ev(w, call, arg) ==
    [w EXCEPT !.trace = Append(@, [call |-> call, ctx |-> w.current, arg |-> arg,
                                   reg |-> FALSE, locked |-> FALSE])]

\* the interop objects registered on GL texture `name` of the current context
ObjectsOn(w, name) ==
    {h \in DOMAIN w.objs : w.objs[h].ctx = w.current /\ w.objs[h].tex = name}

\* a rendering-API call on GL texture `name`: records whether the texture is
\* registered with the interop layer and whether its registration is locked
TexEv(w, call, name) ==
    [w EXCEPT !.trace = Append(@, [call |-> call, ctx |-> w.current, arg |-> name,
                                   reg |-> ObjectsOn(w, name) # {},
                                   locked |-> \A h \in ObjectsOn(w, name) :
                                                  w.objs[h].locks > 0])]

\* an interop-layer call on interop object h
ObjEv(w, call, h) ==
    [w EXCEPT !.trace = Append(@, [call |-> call, ctx |-> w.current, arg |-> h,
                                   reg |-> h \in DOMAIN w.objs,
                                   locked |-> h \in DOMAIN w.objs /\ w.objs[h].locks > 0])]

(******************* scoped guards (context.rs / device.rs) ****************)
\* Device::temporarily_make_context_current: remember the current context and
\* make `c` current; fails (typed error) when the native make-current fails
temporarily_make_context_current(w, c, fault) ==
    IF fault = "MakeCurrent"
    THEN [ok |-> FALSE, saved |-> w.current, w |-> Ev(w, "MakeCurrentFailed", c)]
    ELSE [ok |-> TRUE, saved |-> w.current,
          w |-> [Ev(w, "MakeCurrent", c) EXCEPT !.current = c]]

\* drop of the CurrentContextGuard: the previous context is current again
drop_context_guard(w, saved) ==
    Ev([w EXCEPT !.current = saved], "RestoreCurrent", saved)

\* Device::temporarily_bind_framebuffer: remember the binding, bind fb
temporarily_bind_framebuffer(w, fb) ==
    [saved |-> w.fb_binding[w.current],
     w |-> Ev([w EXCEPT !.fb_binding[w.current] = fb], "BindFramebuffer", fb)]

\* drop of the FramebufferGuard: the previous framebuffer is bound again
drop_framebuffer_guard(w, saved) ==
    Ev([w EXCEPT !.fb_binding[w.current] = saved], "RestoreFramebuffer", saved)

(********************* native device (Direct3D 11) *************************)
\* ID3D11Device::CreateTexture2D: fails, or reports success and leaves the
\* pointer null, or makes a texture
CreateTexture2D(w, fault) ==
    IF fault = "CreateTexture2D"
    THEN [ok |-> FALSE, tex |-> 0, w |-> Ev(w, "CreateTexture2DFailed", 0)]
    ELSE IF fault = "CreateTexture2DNull"
    THEN [ok |-> TRUE, tex |-> 0, w |-> Ev(w, "CreateTexture2DNull", 0)]
    ELSE LET a == MinFree(w.d3d)
         IN [ok |-> TRUE, tex |-> a,
             w |-> Ev([w EXCEPT !.d3d = @ \cup {a}], "CreateTexture2D", a)]

\* ID3D11Device::OpenSharedResource
OpenSharedResource(w, share_handle, fault) ==
    IF fault = "OpenSharedResource"
    THEN [ok |-> FALSE, tex |-> 0, w |-> Ev(w, "OpenSharedResourceFailed", share_handle)]
    ELSE LET a == MinFree(w.d3d)
         IN [ok |-> TRUE, tex |-> a,
             w |-> Ev([w EXCEPT !.d3d = @ \cup {a}], "OpenSharedResource", share_handle)]

\* drop of a ComPtr<ID3D11Texture2D>
ReleaseTexture(w, a) == Ev([w EXCEPT !.d3d = @ \ {a}], "Release", a)

\* drop of the ComPtr<IDXGIResource> obtained from texture a by QueryInterface:
\* the texture stays alive through its own ComPtr
ReleaseResource(w, a) == Ev(w, "Release", a)

(************************* interop layer ***********************************)
DXSetResourceShareHandleNV(w, tex, fault) ==
    [ok |-> fault # "SetShareHandle", w |-> Ev(w, "DXSetResourceShareHandleNV", tex)]

\* registers GL texture `name` of the current context on D3D texture `tex`; a
\* rejected registration returns the invalid handle the program tests for
\* ("Register") or the null handle ("RegisterNull")
DXRegisterObjectNV(w, tex, name, access, fault) ==
    IF fault = "Register"
    THEN [obj |-> INVALID_HANDLE_VALUE,
          w |-> Ev(w, "DXRegisterObjectNVFailed", name)]
    ELSE IF fault = "RegisterNull"
    THEN [obj |-> 0,
          w |-> Ev(w, "DXRegisterObjectNVFailed", name)]
    ELSE LET h == MinFree(DOMAIN w.objs)
             o == [d3d |-> tex, ctx |-> w.current, tex |-> name,
                   access |-> access, locks |-> 0]
         IN [obj |-> h,
             w |-> Ev([w EXCEPT !.objs = [x \in DOMAIN @ \cup {h} |->
                                            IF x = h THEN o ELSE @[x]]],
                      "DXRegisterObjectNV", h)]

\* the driver rejects a lock of an unregistered object; a lock of an object
\* that is already locked is outside WGL_NV_DX_interop, and what the driver
\* answers is not defined: it refuses, or with input "Relock" it accepts
DXLockObjectsNV(w, h, fault) ==
    LET ok == /\ fault # "Lock"
              /\ h \in DOMAIN w.objs
              /\ (w.objs[h].locks = 0 \/ fault = "Relock")
        w1 == ObjEv(w, "DXLockObjectsNV", h)
    IN [ok |-> ok, w |-> IF ok THEN [w1 EXCEPT !.objs[h].locks = @ + 1] ELSE w1]

\* the driver rejects an unlock of an unregistered or unlocked object
DXUnlockObjectsNV(w, h, fault) ==
    LET ok == fault # "Unlock" /\ h \in DOMAIN w.objs /\ w.objs[h].locks > 0
        w1 == ObjEv(w, "DXUnlockObjectsNV", h)
    IN [ok |-> ok, w |-> IF ok THEN [w1 EXCEPT !.objs[h].locks = @ - 1] ELSE w1]

DXUnregisterObjectNV(w, h, fault) ==
    LET ok == fault # "Unregister" /\ h \in DOMAIN w.objs
        w1 == ObjEv(w, "DXUnregisterObjectNV", h)
    IN [ok |-> ok,
        w |-> IF ok THEN [w1 EXCEPT !.objs = [x \in DOMAIN @ \ {h} |-> @[x]]] ELSE w1]

(************************* rendering API (GL) ******************************)
GenTextures(w) ==
    LET n == MinFree({t[2] : t \in {x \in w.textures : x[1] = w.current}})
    IN [name |-> n,
        w |-> Ev([w EXCEPT !.textures = @ \cup {<<w.current, n>>}], "GenTextures", n)]

DeleteTextures(w, name) ==
    TexEv([w EXCEPT !.textures = @ \ {<<w.current, name>>},
                    !.tex_binding[w.current] = IF @ = name THEN 0 ELSE @],
          "DeleteTextures", name)

BindTexture(w, name) ==
    TexEv([w EXCEPT !.tex_binding[w.current] = name], "BindTexture", name)

TexParameteri(w, name) == TexEv(w, "TexParameteri", name)

GenFramebuffers(w) ==
    LET n == MinFree({f[2] : f \in {x \in w.framebuffers : x[1] = w.current}})
    IN [name |-> n,
        w |-> Ev([w EXCEPT !.framebuffers = @ \cup {<<w.current, n>>}],
                 "GenFramebuffers", n)]

FramebufferTexture2D(w, name) == TexEv(w, "FramebufferTexture2D", name)

\* gl_utils::destroy_framebuffer
destroy_framebuffer(w, fb) ==
    Ev([w EXCEPT !.framebuffers = @ \ {<<w.current, fb>>}], "DeleteFramebuffers", fb)

\* Renderbuffers::new: the depth/stencil attachment of a surface
Renderbuffers_new(w) ==
    LET n == MinFree({r[2] : r \in {x \in w.renderbuffers : x[1] = w.current}})
    IN [name |-> n,
        w |-> Ev([w EXCEPT !.renderbuffers = @ \cup {<<w.current, n>>}],
                 "GenRenderbuffers", n)]

\* Renderbuffers::bind_to_current_framebuffer
bind_to_current_framebuffer(w, rb) == Ev(w, "FramebufferRenderbuffer", rb)

\* Renderbuffers::destroy
Renderbuffers_destroy(w, rb) ==
    Ev([w EXCEPT !.renderbuffers = @ \ {<<w.current, rb>>}], "DeleteRenderbuffers", rb)

(************************* window system ***********************************)
GetWindowRect(w, hwnd, fault) ==
    [ok |-> fault # "GetWindowRect", w |-> Ev(w, "GetWindowRect", hwnd)]

SwapBuffers(w, hwnd, fault) ==
    [ok |-> fault # "SwapBuffers", w |-> Ev(w, "SwapBuffers", hwnd)]

(************************* outcome of a method *****************************)
\* drop of a Surface value: its ComPtr is released
drop_surface(w, s) ==
    IF s.kind = "Texture" THEN ReleaseTexture(w, s.d3d11_texture) ELSE w

\* DropPanics as it would be if Drop did not read the destroyed flag (line 87)
DropPanics_ignores_flag(reclaimed, panicking) ==
    ~panicking /\ Len(reclaimed) > 0

\* impl Drop for Surface: reclaiming a value that is not marked destroyed
\* panics unless the thread is already unwinding
DropPanics(reclaimed, panicking) ==
    ~panicking /\ \E i \in 1..Len(reclaimed) : ~reclaimed[i].destroyed

\* `returning` is the value of the method's return expression ("none" when an
\* assertion or expect fired in the body); `reclaimed` the Surface values the
\* call dropped; `result` what the caller observes
Finish(w, returning, ret, reclaimed) ==
    [w |-> w, returning |-> returning, ret |-> ret, reclaimed |-> reclaimed,
     result |-> IF returning = "none" \/ DropPanics(reclaimed, returning = "none")
                THEN "panic" ELSE returning]

(************************* Device methods **********************************)
\* create_generic_surface as it would be if the framebuffer guard were declared
\* before the context guard, and so dropped after it (lines 119, 182)
create_generic_surface_guards_swapped(w0, c, sz, fault) ==
    IF ~w0.interop
    THEN Finish(w0, "RequiredExtensionUnavailable", Nothing, <<>>)
    ELSE
    LET g == temporarily_make_context_current(w0, c, fault) IN
    IF ~g.ok THEN Finish(g.w, "MakeCurrentFailed", Nothing, <<>>)
    ELSE
    LET t == CreateTexture2D(g.w, fault) IN
    IF ~t.ok
    THEN Finish(drop_context_guard(t.w, g.saved), "SurfaceCreationFailed", Nothing, <<>>)
    ELSE
    \* assert!(!d3d11_texture.is_null())
    IF t.tex = 0 THEN Finish(drop_context_guard(t.w, g.saved), "none", Nothing, <<>>)
    ELSE
    LET \* unwinding after a failed assertion: the ComPtr of the texture and the
        \* guard are dropped
        unwind(w) == drop_context_guard(ReleaseTexture(w, t.tex), g.saved)
        \* the same once dxgi_resource exists (line 151): it is dropped first
        unwind_resource(w) == unwind(ReleaseResource(w, t.tex))
        q == Ev(t.w, "QueryInterface", t.tex)
    IN
    IF fault = "QueryInterface" THEN Finish(unwind(q), "none", Nothing, <<>>)
    ELSE
    LET sh == Ev(q, "GetSharedHandle", t.tex) IN
    IF fault = "GetSharedHandle" THEN Finish(unwind_resource(sh), "none", Nothing, <<>>)
    ELSE
    LET ss == DXSetResourceShareHandleNV(sh, t.tex, fault) IN
    IF ~ss.ok THEN Finish(unwind_resource(ss.w), "none", Nothing, <<>>)
    ELSE
    LET gt == GenTextures(ss.w)
        r == DXRegisterObjectNV(gt.w, t.tex, gt.name, WGL_ACCESS_READ_WRITE_NV, fault)
    IN
    IF r.obj = INVALID_HANDLE_VALUE
    THEN Finish(unwind_resource(r.w), "none", Nothing, <<>>)
    ELSE
    LET gf == GenFramebuffers(r.w)
        bf == temporarily_bind_framebuffer(gf.w, gf.name)
        at == FramebufferTexture2D(bf.w, gt.name)
        rb == Renderbuffers_new(at)
        w1 == bind_to_current_framebuffer(rb.w, rb.name)
        w2 == drop_framebuffer_guard(drop_context_guard(
                  ReleaseResource(w1, t.tex), g.saved), bf.saved)
    IN Finish(w2, "Ok",
              HeldSurface(TextureSurface(sz, c, t.tex, r.obj, gt.name, gf.name, rb.name)),
              <<>>)

\* Device::create_generic_surface
create_generic_surface(w0, c, sz, fault) ==
    IF ~w0.interop
    THEN Finish(w0, "RequiredExtensionUnavailable", Nothing, <<>>)
    ELSE
    LET g == temporarily_make_context_current(w0, c, fault) IN
    IF ~g.ok THEN Finish(g.w, "MakeCurrentFailed", Nothing, <<>>)
    ELSE
    LET t == CreateTexture2D(g.w, fault) IN
    IF ~t.ok
    THEN Finish(drop_context_guard(t.w, g.saved), "SurfaceCreationFailed", Nothing, <<>>)
    ELSE
    \* assert!(!d3d11_texture.is_null())
    IF t.tex = 0 THEN Finish(drop_context_guard(t.w, g.saved), "none", Nothing, <<>>)
    ELSE
    LET \* unwinding after a failed assertion: the ComPtr of the texture and the
        \* guard are dropped
        unwind(w) == drop_context_guard(ReleaseTexture(w, t.tex), g.saved)
        \* the same once dxgi_resource exists (line 151): it is dropped first
        unwind_resource(w) == unwind(ReleaseResource(w, t.tex))
        q == Ev(t.w, "QueryInterface", t.tex)
    IN
    IF fault = "QueryInterface" THEN Finish(unwind(q), "none", Nothing, <<>>)
    ELSE
    LET sh == Ev(q, "GetSharedHandle", t.tex) IN
    IF fault = "GetSharedHandle" THEN Finish(unwind_resource(sh), "none", Nothing, <<>>)
    ELSE
    LET ss == DXSetResourceShareHandleNV(sh, t.tex, fault) IN
    IF ~ss.ok THEN Finish(unwind_resource(ss.w), "none", Nothing, <<>>)
    ELSE
    LET gt == GenTextures(ss.w)
        r == DXRegisterObjectNV(gt.w, t.tex, gt.name, WGL_ACCESS_READ_WRITE_NV, fault)
    IN
    IF r.obj = INVALID_HANDLE_VALUE
    THEN Finish(unwind_resource(r.w), "none", Nothing, <<>>)
    ELSE
    LET gf == GenFramebuffers(r.w)
        bf == temporarily_bind_framebuffer(gf.w, gf.name)
        at == FramebufferTexture2D(bf.w, gt.name)
        rb == Renderbuffers_new(at)
        w1 == bind_to_current_framebuffer(rb.w, rb.name)
        \* scope exit: the framebuffer guard, dxgi_resource, the context guard
        w2 == drop_context_guard(ReleaseResource(
                  drop_framebuffer_guard(w1, bf.saved), t.tex), g.saved)
    IN Finish(w2, "Ok",
              HeldSurface(TextureSurface(sz, c, t.tex, r.obj, gt.name, gf.name, rb.name)),
              <<>>)

\* Device::create_widget_surface
create_widget_surface(w0, c, hwnd, rect, fault) ==
    LET gr == GetWindowRect(w0, hwnd, fault) IN
    IF ~gr.ok THEN Finish(gr.w, "InvalidNativeWidget", Nothing, <<>>)
    ELSE Finish(gr.w, "Ok", HeldSurface(WidgetSurface(rect, c, hwnd)), <<>>)

\* destroy_surface as it would be without `surface.destroyed = true` after the
\* teardown (line 278)
destroy_surface_unmarked(w0, c, surface, fault) ==
    IF ~w0.interop
    THEN Finish(drop_surface(w0, surface), "none", Nothing, <<surface>>)
    ELSE
    IF c # surface.context_id
    THEN LET s == [surface EXCEPT !.destroyed = TRUE]
         IN Finish(drop_surface(Ev(w0, "SetDestroyed", id(s)), s),
                   "IncompatibleSurface", Nothing, <<s>>)
    ELSE
    LET g == temporarily_make_context_current(w0, c, fault) IN
    IF ~g.ok
    THEN Finish(drop_surface(g.w, surface), "MakeCurrentFailed", Nothing, <<surface>>)
    ELSE
    IF surface.kind = "Texture"
    THEN LET w1 == Renderbuffers_destroy(g.w, surface.renderbuffers)
             w2 == destroy_framebuffer(w1, surface.gl_framebuffer)
             w3 == DeleteTextures(w2, surface.gl_texture)
             u == DXUnregisterObjectNV(w3, surface.gl_dx_interop_object, fault)
             s1 == [surface EXCEPT !.gl_framebuffer = 0, !.gl_texture = 0]
             s2 == [s1 EXCEPT !.gl_dx_interop_object = INVALID_HANDLE_VALUE]
         IN IF ~u.ok
            THEN Finish(drop_surface(drop_context_guard(u.w, g.saved), s1),
                        "none", Nothing, <<s1>>)
            ELSE Finish(drop_surface(drop_context_guard(u.w, g.saved), s2),
                        "Ok", Nothing, <<s2>>)
    ELSE Finish(drop_surface(drop_context_guard(g.w, g.saved), surface),
                "Ok", Nothing, <<surface>>)

\* Device::destroy_surface
destroy_surface(w0, c, surface, fault) ==
    IF ~w0.interop
    THEN \* expect("How did you make a surface without DX interop?")
         Finish(drop_surface(w0, surface), "none", Nothing, <<surface>>)
    ELSE
    IF c # surface.context_id
    THEN \* leak the surface, and return an error
         LET s == [surface EXCEPT !.destroyed = TRUE]
         IN Finish(drop_surface(Ev(w0, "SetDestroyed", id(s)), s),
                   "IncompatibleSurface", Nothing, <<s>>)
    ELSE
    LET g == temporarily_make_context_current(w0, c, fault) IN
    IF ~g.ok
    THEN Finish(drop_surface(g.w, surface), "MakeCurrentFailed", Nothing, <<surface>>)
    ELSE
    IF surface.kind = "Texture"
    THEN LET w1 == Renderbuffers_destroy(g.w, surface.renderbuffers)
             w2 == destroy_framebuffer(w1, surface.gl_framebuffer)
             w3 == DeleteTextures(w2, surface.gl_texture)
             u == DXUnregisterObjectNV(w3, surface.gl_dx_interop_object, fault)
             s1 == [surface EXCEPT !.gl_framebuffer = 0, !.gl_texture = 0]
             s2 == [s1 EXCEPT !.gl_dx_interop_object = INVALID_HANDLE_VALUE,
                              !.destroyed = TRUE]
         IN IF ~u.ok
            THEN Finish(drop_surface(drop_context_guard(u.w, g.saved), s1),
                        "none", Nothing, <<s1>>)
            ELSE Finish(drop_surface(drop_context_guard(
                            Ev(u.w, "SetDestroyed", id(s2)), g.saved), s2),
                        "Ok", Nothing, <<s2>>)
    ELSE LET s == [surface EXCEPT !.destroyed = TRUE]
         IN Finish(drop_surface(drop_context_guard(
                       Ev(g.w, "SetDestroyed", id(s)), g.saved), s),
                   "Ok", Nothing, <<s>>)

\* create_surface_texture as it would be without `surface.destroyed = true` on
\* its error returns (lines 288, 308)
create_surface_texture_unmarked(w0, c, surface, fault) ==
    IF surface.kind = "Widget"
    THEN LET s == surface
         IN Finish(drop_surface(Ev(w0, "SetDestroyed", id(s)), s),
                   "WidgetAttached", Nothing, <<s>>)
    ELSE
    IF ~w0.interop
    THEN Finish(drop_surface(w0, surface), "none", Nothing, <<surface>>)
    ELSE
    LET g == temporarily_make_context_current(w0, c, fault) IN
    IF ~g.ok
    THEN Finish(drop_surface(g.w, surface), "MakeCurrentFailed", Nothing, <<surface>>)
    ELSE
    LET o == OpenSharedResource(g.w, surface.dxgi_share_handle, fault) IN
    IF ~o.ok
    THEN LET s == surface
         IN Finish(drop_surface(drop_context_guard(
                       Ev(o.w, "SetDestroyed", id(s)), g.saved), s),
                   "SurfaceImportFailed", Nothing, <<s>>)
    ELSE
    LET \* unwinding: the local ComPtr, the guard, then the argument are dropped
        unwind(w) == drop_surface(drop_context_guard(ReleaseTexture(w, o.tex), g.saved),
                                  surface)
        ss == DXSetResourceShareHandleNV(o.w, o.tex, fault)
    IN
    IF ~ss.ok THEN Finish(unwind(ss.w), "none", Nothing, <<surface>>)
    ELSE
    LET gt == GenTextures(ss.w)
        r == DXRegisterObjectNV(gt.w, o.tex, gt.name, WGL_ACCESS_READ_ONLY_NV, fault)
        \* the handle returned by the registration is locked without a check
        l == DXLockObjectsNV(r.w, r.obj, fault)
    IN
    IF ~l.ok THEN Finish(unwind(l.w), "none", Nothing, <<surface>>)
    ELSE
    LET w1 == BindTexture(l.w, gt.name)
        w2 == TexParameteri(TexParameteri(TexParameteri(TexParameteri(w1,
                  gt.name), gt.name), gt.name), gt.name)
    IN Finish(drop_context_guard(w2, g.saved), "Ok",
              HeldTexture(SurfaceTexture(surface, o.tex, r.obj, gt.name)), <<>>)

\* Device::create_surface_texture
create_surface_texture(w0, c, surface, fault) ==
    IF surface.kind = "Widget"
    THEN LET s == [surface EXCEPT !.destroyed = TRUE]
         IN Finish(drop_surface(Ev(w0, "SetDestroyed", id(s)), s),
                   "WidgetAttached", Nothing, <<s>>)
    ELSE
    IF ~w0.interop
    THEN Finish(drop_surface(w0, surface), "none", Nothing, <<surface>>)
    ELSE
    LET g == temporarily_make_context_current(w0, c, fault) IN
    IF ~g.ok
    THEN Finish(drop_surface(g.w, surface), "MakeCurrentFailed", Nothing, <<surface>>)
    ELSE
    LET o == OpenSharedResource(g.w, surface.dxgi_share_handle, fault) IN
    IF ~o.ok
    THEN LET s == [surface EXCEPT !.destroyed = TRUE]
         IN Finish(drop_surface(drop_context_guard(
                       Ev(o.w, "SetDestroyed", id(s)), g.saved), s),
                   "SurfaceImportFailed", Nothing, <<s>>)
    ELSE
    LET \* unwinding: the local ComPtr, the guard, then the argument are dropped
        unwind(w) == drop_surface(drop_context_guard(ReleaseTexture(w, o.tex), g.saved),
                                  surface)
        ss == DXSetResourceShareHandleNV(o.w, o.tex, fault)
    IN
    IF ~ss.ok THEN Finish(unwind(ss.w), "none", Nothing, <<surface>>)
    ELSE
    LET gt == GenTextures(ss.w)
        r == DXRegisterObjectNV(gt.w, o.tex, gt.name, WGL_ACCESS_READ_ONLY_NV, fault)
        \* the handle returned by the registration is locked without a check
        l == DXLockObjectsNV(r.w, r.obj, fault)
    IN
    IF ~l.ok THEN Finish(unwind(l.w), "none", Nothing, <<surface>>)
    ELSE
    LET w1 == BindTexture(l.w, gt.name)
        w2 == TexParameteri(TexParameteri(TexParameteri(TexParameteri(w1,
                  gt.name), gt.name), gt.name), gt.name)
    IN Finish(drop_context_guard(w2, g.saved), "Ok",
              HeldTexture(SurfaceTexture(surface, o.tex, r.obj, gt.name)), <<>>)

\* destroy_surface_texture as it would be if it unregistered the interop object
\* of the wrapped surface instead of the local one (line 383)
destroy_surface_texture_unregisters_surface(w0, c, st, fault) ==
    LET drop_st(w) == ReleaseTexture(drop_surface(w, st.surface), st.local_d3d11_texture)
    IN
    IF ~w0.interop
    THEN Finish(drop_st(w0), "none", Nothing, <<st.surface>>)
    ELSE
    LET g == temporarily_make_context_current(w0, c, fault) IN
    IF ~g.ok
    THEN Finish(drop_st(g.w), "MakeCurrentFailed", Nothing, <<st.surface>>)
    ELSE
    LET ul == DXUnlockObjectsNV(g.w, st.local_gl_dx_interop_object, fault) IN
    IF ~ul.ok
    THEN Finish(drop_st(drop_context_guard(ul.w, g.saved)), "none", Nothing,
                <<st.surface>>)
    ELSE
    LET ur == DXUnregisterObjectNV(ul.w, st.surface.gl_dx_interop_object, fault) IN
    IF ~ur.ok
    THEN Finish(drop_st(drop_context_guard(ur.w, g.saved)), "none", Nothing,
                <<st.surface>>)
    ELSE
    LET w1 == DeleteTextures(ur.w, st.gl_texture)
        w2 == ReleaseTexture(drop_context_guard(w1, g.saved), st.local_d3d11_texture)
    IN Finish(w2, "Ok", HeldSurface(st.surface), <<>>)

\* Device::destroy_surface_texture
destroy_surface_texture(w0, c, st, fault) ==
    LET \* drop of the SurfaceTexture: its Surface, then its local ComPtr
        drop_st(w) == ReleaseTexture(drop_surface(w, st.surface), st.local_d3d11_texture)
    IN
    IF ~w0.interop
    THEN Finish(drop_st(w0), "none", Nothing, <<st.surface>>)
    ELSE
    LET g == temporarily_make_context_current(w0, c, fault) IN
    IF ~g.ok
    THEN Finish(drop_st(g.w), "MakeCurrentFailed", Nothing, <<st.surface>>)
    ELSE
    LET ul == DXUnlockObjectsNV(g.w, st.local_gl_dx_interop_object, fault) IN
    IF ~ul.ok
    THEN Finish(drop_st(drop_context_guard(ul.w, g.saved)), "none", Nothing,
                <<st.surface>>)
    ELSE
    LET ur == DXUnregisterObjectNV(ul.w, st.local_gl_dx_interop_object, fault) IN
    IF ~ur.ok
    THEN Finish(drop_st(drop_context_guard(ur.w, g.saved)), "none", Nothing,
                <<st.surface>>)
    ELSE
    LET w1 == DeleteTextures(ur.w, st.gl_texture)
        w2 == ReleaseTexture(drop_context_guard(w1, g.saved), st.local_d3d11_texture)
    IN Finish(w2, "Ok", HeldSurface(st.surface), <<>>)

\* lock_surface as it would be without the assertion on the driver's answer
\* (line 410)
lock_surface_unchecked(w0, surface, fault) ==
    IF surface.kind = "Widget" THEN Finish(w0, "Ok", Nothing, <<>>)
    ELSE
    IF ~w0.interop THEN Finish(w0, "none", Nothing, <<>>)
    ELSE
    LET l == DXLockObjectsNV(w0, surface.gl_dx_interop_object, fault)
    IN Finish(l.w, "Ok", Nothing, <<>>)

\* Device::lock_surface
lock_surface(w0, surface, fault) ==
    IF surface.kind = "Widget" THEN Finish(w0, "Ok", Nothing, <<>>)
    ELSE
    IF ~w0.interop THEN Finish(w0, "none", Nothing, <<>>)
    ELSE
    LET l == DXLockObjectsNV(w0, surface.gl_dx_interop_object, fault)
    IN Finish(l.w, IF l.ok THEN "Ok" ELSE "none", Nothing, <<>>)

\* Device::unlock_surface
unlock_surface(w0, surface, fault) ==
    IF surface.kind = "Widget" THEN Finish(w0, "Ok", Nothing, <<>>)
    ELSE
    IF ~w0.interop THEN Finish(w0, "none", Nothing, <<>>)
    ELSE
    LET u == DXUnlockObjectsNV(w0, surface.gl_dx_interop_object, fault)
    IN Finish(u.w, IF u.ok THEN "Ok" ELSE "none", Nothing, <<>>)

\* present_surface_without_context as it would be with the arms of its match
\* exchanged (lines 447-448)
present_surface_without_context_arms_exchanged(w0, surface, fault) ==
    IF surface.kind = "Widget" THEN Finish(w0, "NoWidgetAttached", Nothing, <<>>)
    ELSE
    LET dc == Ev(w0, "GetDC", surface.window_handle)
        sb == SwapBuffers(dc, surface.window_handle, fault)
    IN IF ~sb.ok THEN Finish(sb.w, "none", Nothing, <<>>)
       ELSE Finish(Ev(sb.w, "ReleaseDC", surface.window_handle), "Ok", Nothing, <<>>)

\* Device::present_surface_without_context
present_surface_without_context(w0, surface, fault) ==
    IF surface.kind # "Widget" THEN Finish(w0, "NoWidgetAttached", Nothing, <<>>)
    ELSE
    LET dc == Ev(w0, "GetDC", surface.window_handle)
        sb == SwapBuffers(dc, surface.window_handle, fault)
    IN IF ~sb.ok THEN Finish(sb.w, "none", Nothing, <<>>)
       ELSE Finish(Ev(sb.w, "ReleaseDC", surface.window_handle), "Ok", Nothing, <<>>)

\* create_surface as it would be if the capability check of
\* create_generic_surface were made here, for both variants (lines 103, 113)
create_surface_checks_capability_first(w0, c, surface_type, fault) ==
    IF ~w0.interop
    THEN Finish(w0, "RequiredExtensionUnavailable", Nothing, <<>>)
    ELSE
    IF surface_type.kind = "Generic"
    THEN create_generic_surface(w0, c, surface_type.size, fault)
    ELSE create_widget_surface(w0, c, surface_type.native_widget,
                               surface_type.rect, fault)

\* Device::create_surface
create_surface(w0, c, surface_type, fault) ==
    IF surface_type.kind = "Generic"
    THEN create_generic_surface(w0, c, surface_type.size, fault)
    ELSE create_widget_surface(w0, c, surface_type.native_widget,
                               surface_type.rect, fault)

(************************* the state machine *******************************)
\* the rectangle of a native window (right - left, bottom - top)
WindowRect(hwnd) ==
    LET i == CHOOSE k \in 1..NumWindows : WindowHandle(k) = hwnd
    IN <<IF i <= MaxWidth THEN i ELSE MaxWidth, 1>>

\* SurfaceType::Generic { size } and SurfaceType::Widget { native_widget }; the
\* widget carries the rectangle the window has when it is queried
SurfaceTypes ==
    {[kind |-> "Generic", size |-> sz, native_widget |-> 0, rect |-> sz] : sz \in Sizes}
    \cup {[kind |-> "Widget", size |-> WindowRect(h), native_widget |-> h,
           rect |-> WindowRect(h)] : h \in Windows}

\* the native call of a method that the environment makes fail
\* the native call of a method that the environment makes fail: by its return
\* code or, for "QueryInterface", "GetSharedHandle" and "OpenSharedResource",
\* by the null pointer or invalid handle it leaves (the program treats the two
\* alike); "CreateTexture2DNull" and "RegisterNull" are the failures the
\* program does not treat like the others
CreateFaults(surface_type) ==
    IF surface_type.kind = "Generic"
    THEN {"none", "MakeCurrent", "CreateTexture2D", "CreateTexture2DNull",
          "QueryInterface", "GetSharedHandle", "SetShareHandle", "Register",
          "RegisterNull"}
    ELSE {"none", "GetWindowRect"}
DestroyFaults == {"none", "MakeCurrent", "Unregister"}
CreateTextureFaults == {"none", "MakeCurrent", "OpenSharedResource", "SetShareHandle",
                        "Register", "RegisterNull", "Lock"}
\* "Relock": the driver accepts a lock of an object that is already locked
LockFaults == {"none", "Lock", "Relock"}
DestroyTextureFaults == {"none", "MakeCurrent", "Unlock", "Unregister"}

\* a framebuffer of the application is bound in context 1 before any call
AppFramebuffers == {<<1, 1>>}

NoCall == [op |-> "none", ctx |-> NoContext, slot |-> 0, fault |-> "none",
           arg |-> Nothing, returning |-> "none", result |-> "none", ret |-> Nothing,
           reclaimed |-> <<>>, trace |-> <<>>]

\* the program puts no condition on the context that is current when a method
\* is called
Init ==
    /\ dx_interop_functions \in BOOLEAN
    /\ current_context \in {NoContext} \cup Contexts
    /\ framebuffer_binding = [c \in Contexts |-> IF <<c, 1>> \in AppFramebuffers
                                                  THEN 1 ELSE 0]
    /\ texture_binding = [c \in Contexts |-> 0]
    /\ d3d11_textures = {}
    /\ interop_objects = <<>>
    /\ gl_textures = {}
    /\ gl_framebuffers = AppFramebuffers
    /\ gl_renderbuffers = {}
    /\ held = [i \in Slots |-> Nothing]
    /\ last = NoCall
    /\ history = [on |-> FALSE, made |-> 0, calls |-> <<>>]

\* a recorded run: one caller-held value, at most MaxCalls calls, each call kept
\* with the interop objects and GL objects before and after it
InitSeq ==
    /\ dx_interop_functions = TRUE
    /\ current_context \in {NoContext} \cup Contexts
    /\ framebuffer_binding = [c \in Contexts |-> IF <<c, 1>> \in AppFramebuffers
                                                  THEN 1 ELSE 0]
    /\ texture_binding = [c \in Contexts |-> 0]
    /\ d3d11_textures = {}
    /\ interop_objects = <<>>
    /\ gl_textures = {}
    /\ gl_framebuffers = AppFramebuffers
    /\ gl_renderbuffers = {}
    /\ held = [i \in Slots |-> Nothing]
    /\ last = NoCall
    /\ history = [on |-> TRUE, made |-> 0, calls |-> <<>>]

\* a run is at most MaxCalls calls; in a recorded run the caller works with
\* slot 1 only, and the run ends at the first call that does not return Ok
MayCall(slot) ==
    /\ history.made < MaxCalls
    /\ history.on => /\ slot = 1
                      /\ last.result \in {"none", "Ok"}

\* a panic ends the program
Running == last.result # "panic"

FreeSlots == {i \in Slots : held[i] = Nothing}

\* the state after a method returned r; the caller's slot now holds h
Commit(op, c, slot, fault, r, h) ==
    /\ current_context' = r.w.current
    /\ framebuffer_binding' = r.w.fb_binding
    /\ texture_binding' = r.w.tex_binding
    /\ d3d11_textures' = r.w.d3d
    /\ interop_objects' = r.w.objs
    /\ gl_textures' = r.w.textures
    /\ gl_framebuffers' = r.w.framebuffers
    /\ gl_renderbuffers' = r.w.renderbuffers
    /\ held' = [held EXCEPT ![slot] = h]
    /\ last' = [op |-> op, ctx |-> c, slot |-> slot, fault |-> fault,
                arg |-> held[slot], returning |-> r.returning, result |-> r.result, ret |-> r.ret,
                reclaimed |-> r.reclaimed, trace |-> r.w.trace]
    /\ history' = IF history.on
                  THEN [history EXCEPT !.made = @ + 1, !.calls = Append(@,
                           [call |-> last', before |-> World, after |-> r.w])]
                  ELSE [history EXCEPT !.made = @ + 1]
    /\ UNCHANGED dx_interop_functions

\* the size of a surface is only carried along: the recorded runs try every
\* size, the other runs create generic surfaces of the largest size
MayCreate(surface_type) ==
    (~history.on /\ surface_type.kind = "Generic") =>
        surface_type.size = <<MaxWidth, MaxHeight>>

CreateSurface(c, surface_type, fault) ==
    /\ Running
    /\ MayCreate(surface_type)
    /\ FreeSlots # {}
    /\ LET slot == CHOOSE i \in FreeSlots : \A j \in FreeSlots : i <= j
           r == create_surface(World, c, surface_type, fault)
       IN /\ MayCall(slot)
          /\ Commit("create_surface", c, slot, fault, r, r.ret)

DestroySurface(slot, c, fault) ==
    /\ Running
    /\ MayCall(slot)
    /\ held[slot].tag = "surface"
    /\ LET r == destroy_surface(World, c, held[slot].surface, fault)
       IN Commit("destroy_surface", c, slot, fault, r, Nothing)

CreateSurfaceTexture(slot, c, fault) ==
    /\ Running
    /\ MayCall(slot)
    /\ held[slot].tag = "surface"
    /\ LET r == create_surface_texture(World, c, held[slot].surface, fault)
       IN Commit("create_surface_texture", c, slot, fault, r, r.ret)

DestroySurfaceTexture(slot, c, fault) ==
    /\ Running
    /\ MayCall(slot)
    /\ held[slot].tag = "texture"
    /\ LET r == destroy_surface_texture(World, c, held[slot].surface_texture, fault)
       IN Commit("destroy_surface_texture", c, slot, fault, r, r.ret)

\* lock_surface, unlock_surface and present_surface_without_context borrow the
\* surface: the caller keeps it
LockSurface(slot, fault) ==
    /\ Running
    /\ MayCall(slot)
    /\ held[slot].tag = "surface"
    /\ LET r == lock_surface(World, held[slot].surface, fault)
       IN Commit("lock_surface", NoContext, slot, fault, r, held[slot])

UnlockSurface(slot, fault) ==
    /\ Running
    /\ MayCall(slot)
    /\ held[slot].tag = "surface"
    /\ LET r == unlock_surface(World, held[slot].surface, fault)
       IN Commit("unlock_surface", NoContext, slot, fault, r, held[slot])

PresentSurface(slot, fault) ==
    /\ Running
    /\ MayCall(slot)
    /\ held[slot].tag = "surface"
    /\ LET r == present_surface_without_context(World, held[slot].surface, fault)
       IN Commit("present_surface_without_context", NoContext, slot, fault, r,
                 held[slot])

\* the caller lets a value it holds go out of scope: impl Drop for Surface runs
\* on the surface (for a SurfaceTexture, on the surface it wraps, and the local
\* ComPtr is released)
DropSurface(slot) ==
    /\ Running
    /\ MayCall(slot)
    /\ held[slot] # Nothing
    /\ LET s == IF held[slot].tag = "texture" THEN held[slot].surface_texture.surface
                ELSE held[slot].surface
           w1 == drop_surface(World, s)
           w2 == IF held[slot].tag = "texture"
                 THEN ReleaseTexture(w1, held[slot].surface_texture.local_d3d11_texture)
                 ELSE w1
       IN Commit("drop", NoContext, slot, "none", Finish(w2, "Ok", Nothing, <<s>>),
                 Nothing)

Next ==
    \/ \E c \in Contexts, st \in SurfaceTypes :
           \E f \in CreateFaults(st) : CreateSurface(c, st, f)
    \/ \E i \in Slots, c \in Contexts, f \in DestroyFaults : DestroySurface(i, c, f)
    \/ \E i \in Slots, c \in Contexts, f \in CreateTextureFaults :
           CreateSurfaceTexture(i, c, f)
    \/ \E i \in Slots, c \in Contexts, f \in DestroyTextureFaults :
           DestroySurfaceTexture(i, c, f)
    \/ \E i \in Slots, f \in LockFaults : LockSurface(i, f)
    \/ \E i \in Slots, f \in {"none", "Unlock"} : UnlockSurface(i, f)
    \/ \E i \in Slots, f \in {"none", "SwapBuffers"} : PresentSurface(i, f)
    \/ \E i \in Slots : DropSurface(i)

Spec == Init /\ [][Next]_vars

SpecSeq == InitSeq /\ [][Next]_vars

TypeOK ==
    /\ dx_interop_functions \in BOOLEAN
    /\ current_context \in {NoContext} \cup Contexts
    /\ \A i \in Slots : held[i].tag \in {"none", "surface", "texture"}

(************************* reading a call ***********************************)
CallNames(tr) == [i \in 1..Len(tr) |-> tr[i].call]

\* the places of the calls named `call` in a trace
Places(tr, call) == {i \in 1..Len(tr) : tr[i].call = call}

\* the calls made in a recorded run
Recorded == history.calls

\* the calls a method issues only when it leaves its scope
ScopeExit == {"RestoreFramebuffer", "RestoreCurrent", "Release"}

(***************************************************************************)
(* C1: with the interop capability and every native call succeeding,       *)
(* create_surface(c, Generic{w,h}) followed immediately by                 *)
(* destroy_surface(c, surface) returns Ok, leaves no renderbuffer,          *)
(* framebuffer, GL texture or interop registration of the surface alive,   *)
(* sets destroyed = true as its last step (the surface is reclaimed marked *)
(* destroyed, without a panic), and a create_surface on the same context   *)
(* after it returns Ok.                                                    *)
(***************************************************************************)
C1_CreatedGeneric(i) ==
    /\ Recorded[i].call.op = "create_surface"
    /\ Recorded[i].call.fault = "none"
    /\ Recorded[i].call.result = "Ok"
    /\ Recorded[i].call.ret.surface.kind = "Texture"

C1_ThenDestroyed(i) ==
    /\ i + 1 <= Len(Recorded)
    /\ C1_CreatedGeneric(i)
    /\ Recorded[i + 1].call.op = "destroy_surface"
    /\ Recorded[i + 1].call.ctx = Recorded[i].call.ctx
    /\ Recorded[i + 1].call.fault = "none"

C1_Released(s, w) ==
    /\ <<s.context_id, s.renderbuffers>> \notin w.renderbuffers
    /\ <<s.context_id, s.gl_framebuffer>> \notin w.framebuffers
    /\ <<s.context_id, s.gl_texture>> \notin w.textures
    /\ s.gl_dx_interop_object \notin DOMAIN w.objs

C1_DestroyedLast(tr) ==
    \E p \in Places(tr, "SetDestroyed") :
        /\ \A q \in (p + 1)..Len(tr) : tr[q].call \in ScopeExit
        /\ \A call \in {"DeleteRenderbuffers", "DeleteFramebuffers", "DeleteTextures",
                        "DXUnregisterObjectNV"} :
               \E q \in Places(tr, call) : q < p

C1_CreateDestroyCreate ==
    \A i \in 1..Len(Recorded) :
        C1_ThenDestroyed(i) =>
            LET s == Recorded[i].call.ret.surface
                d == Recorded[i + 1]
            IN /\ d.call.result = "Ok"
               /\ C1_Released(s, d.after)
               /\ C1_DestroyedLast(d.call.trace)
               /\ Len(d.call.reclaimed) = 1
               /\ d.call.reclaimed[1].destroyed
               /\ id(d.call.reclaimed[1]) = id(s)
               /\ (/\ i + 2 <= Len(Recorded)
                   /\ Recorded[i + 2].call.op = "create_surface"
                   /\ Recorded[i + 2].call.ctx = d.call.ctx
                   /\ Recorded[i + 2].call.fault = "none")
                  => Recorded[i + 2].call.result = "Ok"

\* a surface of width MaxWidth was created, destroyed at once, and a second
\* surface was created on the same context
C1_Witness ==
    /\ Len(Recorded) >= 3
    /\ C1_ThenDestroyed(1)
    /\ size(Recorded[1].call.ret.surface) = <<MaxWidth, 1>>
    /\ Recorded[1].before.current # Recorded[1].call.ctx
    /\ Recorded[3].call.op = "create_surface"
    /\ Recorded[3].call.ctx = Recorded[1].call.ctx
    /\ Recorded[3].call.fault = "none"
    /\ Recorded[3].call.result = "Ok"
    /\ Recorded[3].call.ret.surface.kind = "Texture"

(***************************************************************************)
(* C2: whenever destroy_surface, create_surface_texture or                 *)
(* destroy_surface_texture returns a typed error, every Surface the call   *)
(* consumed is marked destroyed when it is reclaimed, so the error reaches *)
(* the caller and no improper-drop panic replaces it.                      *)
(***************************************************************************)
ConsumingCalls == {"destroy_surface", "create_surface_texture", "destroy_surface_texture"}

C2_ErrorsConsumeMarked ==
    (last.op \in ConsumingCalls /\ last.returning \notin {"Ok", "none"}) =>
        /\ \A i \in 1..Len(last.reclaimed) : last.reclaimed[i].destroyed
        /\ last.result = last.returning

(***************************************************************************)
(* C3: every rendering-API call on a GL texture that is registered with    *)
(* the interop layer is made while the registration holds a lock.          *)
(***************************************************************************)
TextureCalls == {"FramebufferTexture2D", "BindTexture", "TexParameteri", "DeleteTextures"}

C3_TouchesAreLocked ==
    \A i \in 1..Len(last.trace) :
        (last.trace[i].call \in TextureCalls /\ last.trace[i].reg) =>
            last.trace[i].locked

(***************************************************************************)
(* C4: destroy_surface with a context other than the surface's own returns *)
(* IncompatibleSurface without a panic, marks the surface destroyed, makes *)
(* no context current and releases none of the surface's GPU resources.    *)
(***************************************************************************)
C4_Alive(s) ==
    s.kind = "Texture" =>
        /\ <<s.context_id, s.renderbuffers>> \in gl_renderbuffers
        /\ <<s.context_id, s.gl_framebuffer>> \in gl_framebuffers
        /\ <<s.context_id, s.gl_texture>> \in gl_textures
        /\ s.gl_dx_interop_object \in DOMAIN interop_objects

C4_ForeignContextLeaks ==
    (/\ last.op = "destroy_surface"
     /\ Len(last.reclaimed) = 1
     /\ last.ctx # last.reclaimed[1].context_id) =>
        /\ last.result = "IncompatibleSurface"
        /\ last.reclaimed[1].destroyed
        /\ \A i \in 1..Len(last.trace) :
               last.trace[i].call \in {"SetDestroyed", "Release"}
        /\ C4_Alive(last.reclaimed[1])


(***************************************************************************)
(* C5: create_surface_texture(ctx, s) followed by                          *)
(* destroy_surface_texture(ctx, t) returns a Surface with the size(), id() *)
(* and context_id() of s, not destroyed, and neither call touches the      *)
(* read-write interop registration, the GL texture or the framebuffer of s.*)
(***************************************************************************)
C5_RoundTrip(i) ==
    /\ i + 1 <= Len(Recorded)
    /\ Recorded[i].call.op = "create_surface_texture"
    /\ Recorded[i].call.result = "Ok"
    /\ Recorded[i + 1].call.op = "destroy_surface_texture"
    /\ Recorded[i + 1].call.ctx = Recorded[i].call.ctx
    /\ Recorded[i + 1].call.result = "Ok"

\* no call of the trace is made on the objects of surface s
C5_Untouched(s, tr) ==
    \A k \in 1..Len(tr) :
        /\ tr[k].call \in {"DXLockObjectsNV", "DXUnlockObjectsNV", "DXUnregisterObjectNV"}
               => tr[k].arg # s.gl_dx_interop_object
        /\ (tr[k].call \in TextureCalls /\ tr[k].ctx = s.context_id)
               => tr[k].arg # s.gl_texture
        /\ (tr[k].call = "DeleteFramebuffers" /\ tr[k].ctx = s.context_id)
               => tr[k].arg # s.gl_framebuffer

C5_SameObjects(s, b, a) ==
    /\ s.gl_dx_interop_object \in DOMAIN b.objs
    /\ s.gl_dx_interop_object \in DOMAIN a.objs
    /\ a.objs[s.gl_dx_interop_object] = b.objs[s.gl_dx_interop_object]
    /\ a.objs[s.gl_dx_interop_object].access = WGL_ACCESS_READ_WRITE_NV
    /\ <<s.context_id, s.gl_texture>> \in a.textures
    /\ <<s.context_id, s.gl_framebuffer>> \in a.framebuffers

C5_TextureRoundTrip ==
    \A i \in 1..Len(Recorded) :
        C5_RoundTrip(i) =>
            LET s == Recorded[i].call.arg.surface
                r == Recorded[i + 1].call.ret.surface
            IN /\ size(r) = size(s)
               /\ id(r) = id(s)
               /\ context_id(r) = context_id(s)
               /\ ~r.destroyed
               /\ r = s
               /\ C5_Untouched(s, Recorded[i].call.trace)
               /\ C5_Untouched(s, Recorded[i + 1].call.trace)
               /\ C5_SameObjects(s, Recorded[i].before, Recorded[i + 1].after)


(***************************************************************************)
(* C6: the local interop object of every live SurfaceTexture is registered *)
(* read-only and holds exactly one lock, taken inside                      *)
(* create_surface_texture after the registration; destroy_surface_texture  *)
(* unlocks it, then unregisters it, then deletes the local GL texture, and *)
(* returns the wrapped Surface only after these three.                     *)
(***************************************************************************)
C6_Locked(t) ==
    /\ t.local_gl_dx_interop_object \in DOMAIN interop_objects
    /\ interop_objects[t.local_gl_dx_interop_object].access = WGL_ACCESS_READ_ONLY_NV
    /\ interop_objects[t.local_gl_dx_interop_object].locks = 1
    /\ interop_objects[t.local_gl_dx_interop_object].tex = t.gl_texture

C6_LockedInside(tr, t) ==
    \E p \in Places(tr, "DXRegisterObjectNV"), q \in Places(tr, "DXLockObjectsNV") :
        /\ p < q
        /\ tr[p].arg = t.local_gl_dx_interop_object
        /\ tr[q].arg = t.local_gl_dx_interop_object
        /\ ~tr[q].locked

C6_Teardown(tr) ==
    SelectSeq(tr, LAMBDA e : e.call \in {"DXUnlockObjectsNV", "DXUnregisterObjectNV",
                                         "DeleteTextures", "DXLockObjectsNV"})

C6_TeardownOrder(tr, t) ==
    /\ CallNames(C6_Teardown(tr)) =
           <<"DXUnlockObjectsNV", "DXUnregisterObjectNV", "DeleteTextures">>
    /\ C6_Teardown(tr)[1].arg = t.local_gl_dx_interop_object
    /\ C6_Teardown(tr)[1].locked
    /\ C6_Teardown(tr)[2].arg = t.local_gl_dx_interop_object
    /\ ~C6_Teardown(tr)[2].locked
    /\ C6_Teardown(tr)[3].arg = t.gl_texture
    /\ ~C6_Teardown(tr)[3].reg

C6_SurfaceTextureLocked ==
    /\ \A i \in Slots : held[i].tag = "texture" => C6_Locked(held[i].surface_texture)
    /\ (last.op = "create_surface_texture" /\ last.result = "Ok") =>
           /\ held[last.slot] = last.ret
           /\ C6_LockedInside(last.trace, last.ret.surface_texture)
    /\ last.op = "destroy_surface_texture" =>
           IF last.result = "Ok"
           THEN /\ C6_TeardownOrder(last.trace, last.arg.surface_texture)
                /\ last.ret = HeldSurface(last.arg.surface_texture.surface)
                /\ last.arg.surface_texture.local_gl_dx_interop_object
                       \notin DOMAIN interop_objects
           ELSE last.ret = Nothing /\ held[last.slot] = Nothing



(***************************************************************************)
(* C7: create_surface, destroy_surface, create_surface_texture and         *)
(* destroy_surface_texture return with the context current that was        *)
(* current when they were called, on every exit path; create_surface also  *)
(* returns with the framebuffer binding it found, and rebinds it before it *)
(* restores the context.                                                   *)
(***************************************************************************)
ScopedCalls == {"create_surface", "destroy_surface", "create_surface_texture",
                "destroy_surface_texture"}

\* every make-current of the trace is undone, to the context `before`
C7_ContextScoped(tr, before) ==
    \A p \in Places(tr, "MakeCurrent") :
        \E q \in Places(tr, "RestoreCurrent") : p < q /\ tr[q].arg = before

\* every framebuffer bind of the trace is undone, to the binding `bound`, and
\* before the context is restored
C7_FramebufferScoped(tr, bound) ==
    \A p \in Places(tr, "BindFramebuffer") :
        \E r \in Places(tr, "RestoreFramebuffer") :
            /\ p < r
            /\ tr[r].arg = bound
            /\ tr[r].ctx = tr[p].ctx
            /\ \A q \in Places(tr, "RestoreCurrent") : r < q

C7_Step ==
    last'.op \in ScopedCalls =>
        /\ current_context' = current_context
        /\ C7_ContextScoped(last'.trace, current_context)
        /\ last'.op = "create_surface" =>
               /\ framebuffer_binding' = framebuffer_binding
               /\ C7_FramebufferScoped(last'.trace, framebuffer_binding[last'.ctx])

\* C7: the four operations restore the current context, and create_surface the
\* framebuffer binding before it, on every exit path
C7_ContextRestored == [][C7_Step]_vars

\* a generic surface was created in context 1, where a framebuffer of the
\* application is bound, while context 2 was current
C7_Witness ==
    /\ last.op = "create_surface"
    /\ last.result = "Ok"
    /\ last.ret.surface.kind = "Texture"
    /\ last.ctx = 1
    /\ current_context = 2
    /\ framebuffer_binding[1] = 1
    /\ Places(last.trace, "RestoreFramebuffer") # {}

C8_LockOfLocked ==
    /\ last'.op = "lock_surface"
    /\ \E i \in Places(last'.trace, "DXLockObjectsNV") : last'.trace[i].locked

\* lock_surface keeps no lock state of its own (lines 404-410): on a locked
\* object the answer of the driver decides, and a second lock is never
\* acquired any other way
C8_Step ==
    /\ C8_LockOfLocked =>
           LET h == last'.arg.surface.gl_dx_interop_object
           IN /\ h \in DOMAIN interop_objects
              /\ interop_objects[h].locks >= 1
              /\ IF last'.fault = "Relock"
                 THEN /\ last'.result = "Ok"
                      /\ interop_objects' =
                             [interop_objects EXCEPT ![h].locks = @ + 1]
                 ELSE /\ last'.result = "panic"
                      /\ interop_objects' = interop_objects
    /\ \A h \in DOMAIN interop_objects' :
           (/\ interop_objects'[h].locks > 1
            /\ h \in DOMAIN interop_objects =>
                   interop_objects[h].locks < interop_objects'[h].locks)
           => /\ C8_LockOfLocked
              /\ last'.fault = "Relock"
              /\ h = last'.arg.surface.gl_dx_interop_object

C9_Op(j) == IF j % 2 = 0 THEN "lock_surface" ELSE "unlock_surface"

\* interop object h holds a lock in machine w
C9_Locked(w, h) == h \in DOMAIN w.objs /\ w.objs[h].locks > 0

\* calls i .. i+k are lock, unlock, lock, ... on a texture surface that holds
\* no lock, the driver being healthy
C9_Run(i, k) ==
    /\ i + k <= Len(Recorded)
    /\ Recorded[i].call.arg.tag = "surface"
    /\ Recorded[i].call.arg.surface.kind = "Texture"
    /\ ~C9_Locked(Recorded[i].before, Recorded[i].call.arg.surface.gl_dx_interop_object)
    /\ \A j \in 0..k : /\ Recorded[i + j].call.op = C9_Op(j)
                       /\ Recorded[i + j].call.fault = "none"

\* C9: lock, unlock, lock, unlock each return Ok, and each unlock leaves the
\* interop objects as they were before the preceding lock
C9_LockUnlockTwice ==
    \A i \in 1..Len(Recorded), k \in 0..3 :
        C9_Run(i, k) =>
            LET h == Recorded[i].call.arg.surface.gl_dx_interop_object
                c == Recorded[i + k]
            IN /\ c.call.result = "Ok"
               /\ h \in DOMAIN c.after.objs
               /\ IF k % 2 = 0
                  THEN c.after.objs[h].locks = 1
                  ELSE /\ c.after.objs[h].locks = 0
                       /\ c.after.objs[h] = Recorded[i + k - 1].before.objs[h]
                       /\ c.after.objs = Recorded[i + k - 1].before.objs

(***************************************************************************)
(* C10: id() of a surface does not change while the surface is live, and   *)
(* two surfaces that are live at the same time have different id().        *)
(***************************************************************************)
SurfaceOf(h) == IF h.tag = "texture" THEN h.surface_texture.surface ELSE h.surface

Live == {i \in Slots : held[i] # Nothing}

\* the surface the last call left in the caller's hands is the one it was given
C10_Stable ==
    (last.op # "none" /\ last.arg # Nothing /\ held[last.slot] # Nothing) =>
        id(SurfaceOf(held[last.slot])) = id(SurfaceOf(last.arg))

\* C10: id() is stable while a surface is live, and distinct among the surfaces
\* that are live at the same time
C10_IdsDistinct ==
    /\ C10_Stable
    /\ \A i \in Live, j \in Live :
           i # j => id(SurfaceOf(held[i])) # id(SurfaceOf(held[j]))


(***************************************************************************)
(* C11: reclaiming a texture-backed Surface whose destroyed flag is false, *)
(* on a thread that is not unwinding, panics; reclaiming a Surface whose   *)
(* destroyed flag is true does not.                                        *)
(***************************************************************************)
C11_Unwinding == last.returning = "none"

C11_DropDetected ==
    (last.op # "none" /\ ~C11_Unwinding) =>
        /\ (\E i \in 1..Len(last.reclaimed) :
                /\ last.reclaimed[i].kind = "Texture"
                /\ ~last.reclaimed[i].destroyed) => last.result = "panic"
        /\ (\A i \in 1..Len(last.reclaimed) : last.reclaimed[i].destroyed)
               => last.result = last.returning

\* the caller dropped a texture-backed surface it never destroyed, whose
\* interop object is still registered
C11_Witness ==
    /\ last.op = "drop"
    /\ last.arg.tag = "surface"
    /\ last.reclaimed[1].kind = "Texture"
    /\ ~last.reclaimed[1].destroyed
    /\ last.result = "panic"
    /\ \E h \in DOMAIN interop_objects : interop_objects[h].access = WGL_ACCESS_READ_WRITE_NV


(***************************************************************************)
(* C12: create_surface_texture on a widget-backed surface returns          *)
(* WidgetAttached, marks the surface destroyed and does not return it,     *)
(* makes no context current, calls neither the native device nor the       *)
(* interop layer and acquires no lock.                                     *)
(***************************************************************************)
C12_OnWidget(slot) ==
    /\ last'.op = "create_surface_texture"
    /\ last'.slot = slot
    /\ held[slot].tag = "surface"
    /\ held[slot].surface.kind = "Widget"

C12_Step ==
    \A slot \in Slots :
        C12_OnWidget(slot) =>
            /\ last'.result = "WidgetAttached"
            /\ last'.ret = Nothing
            /\ held'[slot] = Nothing
            /\ last'.reclaimed = <<[held[slot].surface EXCEPT !.destroyed = TRUE]>>
            /\ \A i \in 1..Len(last'.trace) : last'.trace[i].call = "SetDestroyed"
            /\ UNCHANGED <<current_context, framebuffer_binding, texture_binding,
                           d3d11_textures, interop_objects, gl_textures,
                           gl_framebuffers, gl_renderbuffers>>

\* C12: create_surface_texture on a widget-backed surface returns WidgetAttached
\* with the surface consumed and marked, and nothing else touched
C12_WidgetAttached == [][C12_Step]_vars

\* a widget-backed surface was refused while a texture-backed surface is
\* live, the interop capability being present
C12_Witness ==
    /\ last.op = "create_surface_texture"
    /\ last.result = "WidgetAttached"
    /\ last.arg.surface.kind = "Widget"
    /\ dx_interop_functions
    /\ last.fault = "MakeCurrent"
    /\ interop_objects # <<>>


(***************************************************************************)
(* C13: present_surface_without_context on a texture-backed surface        *)
(* returns NoWidgetAttached and changes nothing; on a widget-backed        *)
(* surface it swaps the buffers of that surface's window exactly once and  *)
(* returns Ok, whether or not a context is current, and leaves the current *)
(* context and the interop state alone.                                    *)
(* As amended: it returns Ok when the native SwapBuffers call succeeds;    *)
(* when that call fails it does not return (the assertion of line 454),    *)
(* having made the one swap call and changed no state.                     *)
(***************************************************************************)
C13_Frame ==
    UNCHANGED <<current_context, framebuffer_binding, texture_binding,
                d3d11_textures, interop_objects, gl_textures, gl_framebuffers,
                gl_renderbuffers, held>>

\* the calls are made on the window of the surface, SwapBuffers once
C13_OneSwap(tr, surface) ==
    /\ Cardinality(Places(tr, "SwapBuffers")) = 1
    /\ \A i \in 1..Len(tr) :
           /\ tr[i].arg = surface.window_handle
           /\ tr[i].call \in {"GetDC", "SwapBuffers", "ReleaseDC"}

\* the statement as it was made: Ok on every widget-backed surface
C13_StepAsStated ==
    \A slot \in Slots :
        (last'.op = "present_surface_without_context" /\ last'.slot = slot) =>
            IF held[slot].surface.kind = "Texture"
            THEN /\ last'.result = "NoWidgetAttached"
                 /\ last'.trace = <<>>
                 /\ C13_Frame
            ELSE /\ last'.result = "Ok"
                 /\ C13_OneSwap(last'.trace, held[slot].surface)
                 /\ C13_Frame

\* C13 as stated: present_surface_without_context returns Ok on every
\* widget-backed surface, after one swap and with no other effect
C13_PresentAlwaysOk == [][C13_StepAsStated]_vars

C13_Step ==
    \A slot \in Slots :
        (last'.op = "present_surface_without_context" /\ last'.slot = slot) =>
            IF held[slot].surface.kind = "Texture"
            THEN /\ last'.result = "NoWidgetAttached"
                 /\ last'.trace = <<>>
                 /\ C13_Frame
            ELSE /\ last'.result = IF last'.fault = "none" THEN "Ok" ELSE "panic"
                 /\ C13_OneSwap(last'.trace, held[slot].surface)
                 /\ C13_Frame

\* C13 as amended: present_surface_without_context refuses a texture-backed
\* surface; on a widget-backed surface it swaps the buffers of the window once,
\* with no other effect, and returns Ok unless the swap failed
C13_PresentSwapsOnce == [][C13_Step]_vars

\* a widget-backed surface of context 1 was presented with context 2 current,
\* while an interop object is registered
C13_Witness ==
    /\ last.op = "present_surface_without_context"
    /\ last.result = "Ok"
    /\ last.arg.surface.kind = "Widget"
    /\ context_id(last.arg.surface) = 1
    /\ current_context = 2
    /\ interop_objects # <<>>
    /\ Places(last.trace, "SwapBuffers") # {}


(***************************************************************************)
(* C14: without the interop capability create_surface(Generic) returns     *)
(* RequiredExtensionUnavailable for every size and context, having made no *)
(* context current and created nothing; create_surface(Widget) does the    *)
(* same with and without the capability, and the surface it returns        *)
(* carries the id of the creating context.                                 *)
(***************************************************************************)
C14_Generic == {t \in SurfaceTypes : t.kind = "Generic"}

C14_Widget == {t \in SurfaceTypes : t.kind = "Widget"}

\* the machine as it is, with the capability as given
C14_With(capability) == [World EXCEPT !.interop = capability]

C14_GenericRefused ==
    \A c \in Contexts, t \in C14_Generic : \A f \in CreateFaults(t) :
        LET r == create_surface(C14_With(FALSE), c, t, f)
        IN /\ r.result = "RequiredExtensionUnavailable"
           /\ r.ret = Nothing
           /\ r.w = C14_With(FALSE)

C14_WidgetUnaffected ==
    \A c \in Contexts, t \in C14_Widget : \A f \in CreateFaults(t) :
        LET r == create_surface(C14_With(TRUE), c, t, f)
            q == create_surface(C14_With(FALSE), c, t, f)
        IN /\ q.result = r.result
           /\ q.ret = r.ret
           /\ q.w.trace = r.w.trace
           /\ [q.w EXCEPT !.interop = TRUE] = r.w
           /\ f = "none" => /\ r.result = "Ok"
                            /\ context_id(r.ret.surface) = c
                            /\ r.ret.surface.kind = "Widget"

\* C14: the capability decides create_surface(Generic) before anything is
\* touched, and does not matter to create_surface(Widget)
C14_CapabilityGatesGeneric ==
    /\ C14_GenericRefused
    /\ C14_WidgetUnaffected
    /\ (last.op = "create_surface" /\ ~dx_interop_functions) =>
           \/ /\ last.result = "RequiredExtensionUnavailable"
              /\ last.trace = <<>>
              /\ held[last.slot] = Nothing
           \/ /\ CallNames(last.trace) = <<"GetWindowRect">>
              /\ last.result \in {"Ok", "InvalidNativeWidget"}
              /\ last.result = "Ok" => context_id(held[last.slot].surface) = last.ctx

\* without the capability, a generic surface was refused in context 2 while a
\* widget-backed surface created in context 1 is live
C14_Witness ==
    /\ ~dx_interop_functions
    /\ last.op = "create_surface"
    /\ last.ctx = 2
    /\ last.result = "RequiredExtensionUnavailable"
    /\ last.trace = <<>>
    /\ \E i \in Slots : /\ held[i].tag = "surface"
                        /\ held[i].surface.kind = "Widget"
                        /\ context_id(held[i].surface) = 1


(***************************************************************************)
(* C15: destroy_surface releases what create_surface(Generic) acquired in  *)
(* the reverse of the order of acquisition, destroy_surface_texture does   *)
(* the same for create_surface_texture, and no GL texture is deleted while *)
(* an interop object is registered on it.                                  *)
(***************************************************************************)
\* the calls of a trace that acquire or release a resource of a surface
C15_Acquire == <<"GenTextures", "DXRegisterObjectNV", "GenFramebuffers", "GenRenderbuffers">>

C15_Release == <<"DeleteTextures", "DXUnregisterObjectNV", "DeleteFramebuffers",
                 "DeleteRenderbuffers">>

C15_TextureAcquire == <<"GenTextures", "DXRegisterObjectNV", "DXLockObjectsNV">>

C15_TextureRelease == <<"DeleteTextures", "DXUnregisterObjectNV", "DXUnlockObjectsNV">>

\* each of the calls `names` occurs once in tr, and in the order of `names`
C15_InOrder(tr, names) ==
    /\ \A k \in 1..Len(names) : Cardinality(Places(tr, names[k])) = 1
    /\ \A j \in 1..Len(names), k \in 1..Len(names) :
           j < k => \A p \in Places(tr, names[j]), q \in Places(tr, names[k]) : p < q

\* each of the calls `names` occurs once in tr, and in the reverse order
C15_InReverse(tr, names) ==
    /\ \A k \in 1..Len(names) : Cardinality(Places(tr, names[k])) = 1
    /\ \A j \in 1..Len(names), k \in 1..Len(names) :
           j < k => \A p \in Places(tr, names[j]), q \in Places(tr, names[k]) : q < p

\* C15: a successful destruction releases in the reverse of the order of
\* acquisition, and a GL texture is deleted only once nothing is registered on it
C15_DestroyReversesCreate ==
    /\ (last.op = "create_surface" /\ last.result = "Ok"
            /\ last.ret.surface.kind = "Texture")
           => C15_InOrder(last.trace, C15_Acquire)
    /\ (last.op = "destroy_surface" /\ last.result = "Ok"
            /\ last.arg.surface.kind = "Texture")
           => C15_InReverse(last.trace, C15_Release)
    /\ (last.op = "create_surface_texture" /\ last.result = "Ok")
           => C15_InOrder(last.trace, C15_TextureAcquire)
    /\ (last.op = "destroy_surface_texture" /\ last.result = "Ok")
           => C15_InReverse(last.trace, C15_TextureRelease)
    /\ \A i \in Places(last.trace, "DeleteTextures") : ~last.trace[i].reg


(***************************************************************************)
(* C16: create_surface(Widget), lock_surface, unlock_surface and           *)
(* destroy_surface by the owning context, on a widget-backed surface,      *)
(* issue no interop-layer call and return Ok with or without the interop   *)
(* capability, the native calls being healthy; destroy_surface leaves the  *)
(* surface marked destroyed.                                               *)
(***************************************************************************)
InteropCalls == {"DXSetResourceShareHandleNV", "DXRegisterObjectNV",
                 "DXRegisterObjectNVFailed", "DXLockObjectsNV", "DXUnlockObjectsNV",
                 "DXUnregisterObjectNV"}

C16_NoInterop(tr) == \A i \in 1..Len(tr) : tr[i].call \notin InteropCalls

\* the last call was made on a widget-backed surface, or created one
C16_OnWidget ==
    \/ /\ last.op = "create_surface"
       /\ CallNames(last.trace) = <<"GetWindowRect">>
    \/ /\ last.op \in {"lock_surface", "unlock_surface"}
       /\ last.arg.surface.kind = "Widget"
    \/ /\ last.op = "destroy_surface"
       /\ last.arg.surface.kind = "Widget"
       /\ last.ctx = context_id(last.arg.surface)

\* C16: the operations on a widget-backed surface leave the interop layer
\* alone and succeed whether or not the capability was negotiated
C16_WidgetNeedsNoInterop ==
    (C16_OnWidget /\ last.fault = "none") =>
        /\ last.result = "Ok"
        /\ C16_NoInterop(last.trace)
        /\ last.op = "destroy_surface" =>
               /\ Len(last.reclaimed) = 1
               /\ last.reclaimed[1].destroyed


(***************************************************************************)
(* C17: when the driver rejects an interop-layer call (set-share-handle,   *)
(* register, lock, unlock, unregister), the operation aborts at that call: *)
(* it returns neither Ok nor a typed error, and it makes no further        *)
(* interop-layer or rendering-API call.                                    *)
(***************************************************************************)
\* the interop-layer call that the fault input makes the driver reject
C17_FaultCall(fault) ==
    CASE fault = "SetShareHandle" -> "DXSetResourceShareHandleNV"
      [] fault \in {"Register", "RegisterNull"} -> "DXRegisterObjectNVFailed"
      [] fault = "Lock" -> "DXLockObjectsNV"
      [] fault = "Unlock" -> "DXUnlockObjectsNV"
      [] fault = "Unregister" -> "DXUnregisterObjectNV"
      [] OTHER -> "no call"

\* the driver rejected the call of event e
C17_Rejected(e, fault) ==
    \/ e.call = C17_FaultCall(fault)
    \/ e.call = "DXRegisterObjectNVFailed"
    \/ e.call = "DXLockObjectsNV" /\ (~e.reg \/ (e.locked /\ fault # "Relock"))
    \/ e.call = "DXUnlockObjectsNV" /\ (~e.reg \/ ~e.locked)
    \/ e.call = "DXUnregisterObjectNV" /\ ~e.reg

\* C17: a rejected interop-layer call is the last call of the operation, which
\* then unwinds
C17_RejectionAborts ==
    \A i \in 1..Len(last.trace) :
        C17_Rejected(last.trace[i], last.fault) =>
            /\ last.result = "panic"
            /\ last.returning = "none"
            /\ \A j \in (i + 1)..Len(last.trace) : last.trace[j].call \in ScopeExit


(***************************************************************************)
(* C18: create_surface_texture and destroy_surface_texture lock, unlock    *)
(* and unregister only the read-only interop object of the surface         *)
(* texture; with the driver healthy they succeed whether the read-write    *)
(* interop object of the original surface is locked or not, and they leave *)
(* its lock and registration as they were.                                 *)
(***************************************************************************)
LockingCalls == {"DXLockObjectsNV", "DXUnlockObjectsNV", "DXUnregisterObjectNV"}

\* the surface texture the call made or unmade, and the surface under it
C18_Texture(slot) ==
    IF last'.op = "create_surface_texture" THEN held'[slot].surface_texture
    ELSE held[slot].surface_texture

C18_Original(slot) ==
    IF last'.op = "create_surface_texture" THEN held[slot].surface
    ELSE held[slot].surface_texture.surface

\* the interop object the call may lock, unlock or unregister: the one it
\* registers itself, or the local one of the surface texture it is given
C18_Derived(slot) ==
    IF last'.op = "create_surface_texture"
    THEN {h \in DOMAIN interop_objects' : h \notin DOMAIN interop_objects}
    ELSE {held[slot].surface_texture.local_gl_dx_interop_object}

C18_Step ==
    \A slot \in Slots :
        (/\ last'.op \in {"create_surface_texture", "destroy_surface_texture"}
         /\ last'.slot = slot
         /\ C18_Original(slot).kind = "Texture") =>
            LET h == C18_Original(slot).gl_dx_interop_object
            IN \* on every exit
               /\ \A i \in 1..Len(last'.trace) :
                      (/\ last'.trace[i].call \in LockingCalls
                       /\ last'.trace[i].reg) => last'.trace[i].arg \in C18_Derived(slot)
               /\ \A x \in DOMAIN interop_objects \ C18_Derived(slot) :
                      /\ x \in DOMAIN interop_objects'
                      /\ interop_objects'[x] = interop_objects[x]
               /\ h \notin C18_Derived(slot)
               /\ h \in DOMAIN interop_objects <=> h \in DOMAIN interop_objects'
               /\ h \in DOMAIN interop_objects =>
                      interop_objects[h].access = WGL_ACCESS_READ_WRITE_NV
               \* with the driver healthy
               /\ last'.fault = "none" =>
                      LET d == C18_Texture(slot).local_gl_dx_interop_object
                      IN /\ last'.result = "Ok"
                         /\ C18_Derived(slot) = {d}
                         /\ IF last'.op = "create_surface_texture"
                            THEN interop_objects'[d].access = WGL_ACCESS_READ_ONLY_NV
                            ELSE interop_objects[d].access = WGL_ACCESS_READ_ONLY_NV

\* C18: the surface texture's lock is taken and given back on its own interop
\* object, whatever the lock state of the original surface, which is left alone
C18_LocksIndependent == [][C18_Step]_vars

\* a surface texture was made from a locked surface and unmade again: the
\* surface came back, still locked
C18_Witness ==
    /\ last.op = "destroy_surface_texture"
    /\ last.result = "Ok"
    /\ held[last.slot].tag = "surface"
    /\ held[last.slot].surface.gl_dx_interop_object \in DOMAIN interop_objects
    /\ interop_objects[held[last.slot].surface.gl_dx_interop_object].locks = 1


(***************************************************************************)
(* C19: when opening the shared handle fails, create_surface_texture       *)
(* returns SurfaceImportFailed, marks the surface destroyed and does not   *)
(* return it, creates no GL texture and no interop registration, acquires  *)
(* no lock, and restores the context that was current.                     *)
(***************************************************************************)
C19_Step ==
    \A slot \in Slots :
        (/\ last'.op = "create_surface_texture"
         /\ last'.slot = slot
         /\ last'.fault = "OpenSharedResource"
         /\ dx_interop_functions
         /\ held[slot].surface.kind = "Texture") =>
            /\ last'.result = "SurfaceImportFailed"
            /\ last'.ret = Nothing
            /\ held'[slot] = Nothing
            /\ last'.reclaimed = <<[held[slot].surface EXCEPT !.destroyed = TRUE]>>
            /\ \A i \in 1..Len(last'.trace) :
                   last'.trace[i].call \notin InteropCalls \cup {"GenTextures"}
            /\ gl_textures' = gl_textures
            /\ interop_objects' = interop_objects
            /\ current_context' = current_context
            /\ \E p \in Places(last'.trace, "MakeCurrent") :
                   \E q \in Places(last'.trace, "RestoreCurrent") :
                       p < q /\ last'.trace[q].arg = current_context

\* C19: a failed import consumes the surface marked destroyed, makes nothing
\* in the target context and puts the current context back
C19_ImportFailed == [][C19_Step]_vars

\* the import failed in context 2 while context 1 was current, the surface
\* being locked
C19_Witness ==
    /\ last.op = "create_surface_texture"
    /\ last.result = "SurfaceImportFailed"
    /\ last.ctx = 2
    /\ current_context = 1
    /\ last.reclaimed[1].destroyed
    /\ last.arg.surface.gl_dx_interop_object \in DOMAIN interop_objects
    /\ interop_objects[last.arg.surface.gl_dx_interop_object].locks = 1


(***************************************************************************)
(* C20: no interop object is unregistered while it holds a lock: whenever  *)
(* destroy_surface or destroy_surface_texture issues the unregister call   *)
(* for an interop object, that object is unlocked.                         *)
(***************************************************************************)
C20_UnregisterUnlocked ==
    \A i \in Places(last.trace, "DXUnregisterObjectNV") :
        /\ last.op \in {"destroy_surface", "destroy_surface_texture"}
        /\ ~last.trace[i].locked


(***************************************************************************)
(* C21: IncompatibleSurface is the only outcome that leaks: a texture-     *)
(* backed surface marked destroyed by any other outcome (a successful      *)
(* destroy_surface, an error returned by create_surface_texture) has had   *)
(* its interop object unregistered and its GL texture, framebuffer and     *)
(* renderbuffers released.                                                 *)
(***************************************************************************)
\* the last call consumed a texture-backed surface and marked it destroyed
C21_Marked ==
    /\ last.op \in {"destroy_surface", "create_surface_texture"}
    /\ last.arg.tag = "surface"
    /\ last.arg.surface.kind = "Texture"
    /\ \E i \in 1..Len(last.reclaimed) : last.reclaimed[i].destroyed

\* nothing of surface s is left on the GPU side
C21_Released(s) ==
    /\ s.gl_dx_interop_object \notin DOMAIN interop_objects
    /\ <<s.context_id, s.gl_texture>> \notin gl_textures
    /\ <<s.context_id, s.gl_framebuffer>> \notin gl_framebuffers
    /\ <<s.context_id, s.renderbuffers>> \notin gl_renderbuffers

\* C21: a texture-backed surface marked destroyed by an outcome other than
\* IncompatibleSurface has nothing left registered or allocated
C21_OnlyIncompatibleLeaks ==
    (C21_Marked /\ last.result # "IncompatibleSurface") =>
        C21_Released(last.arg.surface)

====
